---- MODULE Spec2Model ----
(***************************************************************************)
(* sc8prx.ffmpeg: Reader and Writer wrappers over the imageio/FFmpeg        *)
(* decode and encode engines, and the Reader.decode transcoding procedure.  *)
(*                                                                          *)
(* The decode engine is a pull iterator over a finite source: it yields the *)
(* frames of `source` in order and then raises StopIteration; a corrupt     *)
(* source makes it raise an engine failure instead of yielding the frame at *)
(* position `failAt`.  The encode engine is the sequence `sink` of frames   *)
(* appended to it.  The archive is the ordered list `zip` of entries        *)
(* written with ZipFile.writestr.                                           *)
(***************************************************************************)
EXTENDS Integers, Sequences, FiniteSets, TLC

VARIABLES
    source,     \* decode engine: pixel data of the frames of the media source
    failAt,     \* decode engine: position whose pull raises a failure, or None
    it,         \* Reader._iter: [pos |-> frames pulled, done |-> iterator finished]
    kwsize,     \* Reader.__init__: the "size" keyword argument, or NoSize
    meta,       \* Reader._meta
    info,       \* Reader._info: the frame size packed into every PixelData
    hist,       \* the last two Reader operations and what they returned
    estimate,   \* value returned by the last estimateFrames call
    wsize,      \* Writer._size
    ctorSize,   \* Writer.__init__: the size argument, or NoSize
    sink,       \* encode engine: the frames appended with append_data
    args,       \* Reader.decode: its arguments
    zip,        \* Reader.decode: entries of the archive, in the order written
    dret,       \* Reader.decode: how the call ended
    io,         \* the engine handles (_io) of the Reader and the Writer
    archive,    \* frames of the archive given to concat_zip and encode
    call,       \* Writer.concat / concat_zip / encode: arguments and outcome
    sinkFail    \* encode engine: the append_data call that raises, or None

vars == <<source, failAt, it, kwsize, meta, info, hist, estimate,
          wsize, ctorSize, sink, args, zip, dret, io, archive, call, sinkFail>>

readerVars == <<source, failAt, it, kwsize, meta, info, hist, estimate>>
writerVars == <<wsize, ctorSize, sink>>
decodeVars == <<args, zip, dret>>
procVars == <<archive, call, sinkFail>>

---------------------------------------------------------------------------
(* Bounds of the model *)

MaxLen == 3         \* longest media source, in frames
MaxWrites == 3      \* frames appended to one Writer
MaxInterval == 3    \* largest decode interval

---------------------------------------------------------------------------
(* Python values *)

None == -1                      \* None where an integer argument is expected
NoSize == <<>>                  \* None where a size is expected
Sizes == {<<1, 1>>, <<2, 1>>, <<2, 2>>}
Data == {1, 2}                  \* pixel contents a frame can have

Truthy(x) == x # None /\ x # 0  \* bool(x) of an int-or-None

\* A metadata value: a missing key, float("inf"), a value that is no number,
\* or the number num/den.
Absent == [k |-> "absent", num |-> 0, den |-> 1]
Inf == [k |-> "inf", num |-> 0, den |-> 1]
Bad == [k |-> "bad", num |-> 0, den |-> 1]
Num(a, b) == [k |-> "num", num |-> a, den |-> b]
NoValue == [k |-> "None", num |-> 0, den |-> 1]   \* Python None as a result
Unset == [k |-> "unset", num |-> 0, den |-> 1]    \* no call made yet

Min(a, b) == IF a < b THEN a ELSE b
Max(a, b) == IF a > b THEN a ELSE b

---------------------------------------------------------------------------
(* _FF: the engine handle and its scope *)

\* A handle: not there, open or closed; whether a with statement holds it,
\* and how that statement was left.
NoHandle == [st |-> "none", scope |-> "none", exc |-> "none"]

\* imageio.get_reader / imageio.get_writer in __init__
opened == [st |-> "open", scope |-> "none", exc |-> "none"]

\* _FF.__enter__: return self
enter(h) == [h EXCEPT !.scope = "in"]

\* _FF.__exit__ closing the handle only when the block ended normally.
exit_onSuccess(h, exc) ==
    [st |-> IF exc = "none" THEN "closed" ELSE h.st,
     scope |-> IF h.scope = "in" THEN "left" ELSE h.scope, exc |-> exc]

\* _FF.__exit__(*args) and close: self._io.close(), whatever args are.
exit(h, exc) ==
    [st |-> "closed", scope |-> IF h.scope = "in" THEN "left" ELSE h.scope, exc |-> exc]

\* The instances the module keeps a record of: _FF has no registry, and no
\* __init__, __exit__ or close adds to or removes from one.
registry == {}

---------------------------------------------------------------------------
(* The decode engine: next(self._iter) *)

\* One pull from the engine's frame iterator.  A generator that has raised
\* is finished: every later pull raises StopIteration.
pull(i) ==
    IF i.done THEN [kind |-> "StopIteration", it |-> i, data |-> 0]
    ELSE IF i.pos = failAt
        THEN [kind |-> "EngineFailure", it |-> [i EXCEPT !.done = TRUE], data |-> 0]
    ELSE IF i.pos >= Len(source)
        THEN [kind |-> "StopIteration", it |-> [i EXCEPT !.done = TRUE], data |-> 0]
    ELSE [kind |-> "frame", it |-> [i EXCEPT !.pos = i.pos + 1],
          data |-> source[i.pos + 1]]

\* Reader.__next__ taking the frame size from the source's metadata.
PixelData_metaSize(p, d) == [pos |-> p, data |-> d, size |-> meta.size]

\* Reader.__next__: the pulled data wrapped as PixelData with the reader's size.
PixelData(p, d) == [pos |-> p, data |-> d, size |-> info]

---------------------------------------------------------------------------
(* Reader *)

\* Reader.__iter__: yield next(self) until StopIteration, which it absorbs;
\* any other exception leaves the generator after the frames already yielded.
RECURSIVE iterLoop(_, _)
iterLoop(i, acc) ==
    LET r == pull(i) IN
    IF r.kind = "frame"
        THEN iterLoop(r.it, Append(acc, PixelData(i.pos, r.data)))
        ELSE [it |-> r.it, frames |-> acc,
              raised |-> IF r.kind = "StopIteration" THEN "none" ELSE r.kind]

\* Reader._read with the loop test n >= 0: one frame too many.
RECURSIVE readLoop_inclusive(_, _, _)
readLoop_inclusive(n, i, acc) ==
    IF n = None \/ n >= 0
        THEN LET r == pull(i) IN
             IF r.kind = "frame"
                 THEN readLoop_inclusive(IF n # None THEN n - 1 ELSE n, r.it,
                                         Append(acc, PixelData(i.pos, r.data)))
                 ELSE [it |-> r.it, frames |-> acc,
                       raised |-> IF r.kind = "StopIteration" THEN "none" ELSE r.kind]
        ELSE [it |-> i, frames |-> acc, raised |-> "none"]

\* Reader._read: while n is None or n > 0, yield next(self) and count down.
RECURSIVE readLoop(_, _, _)
readLoop(n, i, acc) ==
    IF n = None \/ n > 0
        THEN LET r == pull(i) IN
             IF r.kind = "frame"
                 THEN readLoop(IF n # None THEN n - 1 ELSE n, r.it,
                               Append(acc, PixelData(i.pos, r.data)))
                 ELSE [it |-> r.it, frames |-> acc,
                       raised |-> IF r.kind = "StopIteration" THEN "none" ELSE r.kind]
        ELSE [it |-> i, frames |-> acc, raised |-> "none"]

\* Reader.read: the list built from _read(n); an exception leaves no list.
read(n, i) ==
    LET r == readLoop(n, i, <<>>) IN
    IF r.raised = "none" THEN r ELSE [r EXCEPT !.frames = <<>>]

\* Reader.skip with one frame too many discarded.
RECURSIVE skipLoop_extra(_, _)
skipLoop_extra(n, i) ==
    IF n + 1 # 0
        THEN LET r == pull(i) IN
             IF r.kind = "frame" THEN skipLoop_extra(n - 1, r.it)
                                 ELSE skipLoop_extra(-1, r.it)
        ELSE i

\* Reader.skip: while n, pull a frame and count down; any exception sets n = 0.
RECURSIVE skipLoop(_, _)
skipLoop(n, i) ==
    IF n # 0
        THEN LET r == pull(i) IN
             IF r.kind = "frame" THEN skipLoop(n - 1, r.it)
                                 ELSE skipLoop(0, r.it)
        ELSE i

\* The record kept of one Reader operation.
Op(name, n, i, j, frames, raised) ==
    [op |-> name, n |-> n, from |-> i.pos, to |-> j.pos,
     frames |-> frames, raised |-> raised]

Log(o) == IF Len(hist) < 2 THEN Append(hist, o) ELSE <<hist[2], o>>

Reader_next ==
    /\ LET r == pull(it) IN
        /\ it' = r.it
        /\ hist' = Log(Op("next", None, it, r.it,
                          IF r.kind = "frame" THEN <<PixelData(it.pos, r.data)>> ELSE <<>>,
                          IF r.kind = "frame" THEN "none" ELSE r.kind))
    /\ UNCHANGED <<source, failAt, kwsize, meta, info, estimate>>
    /\ UNCHANGED <<writerVars, decodeVars, procVars, io>>

Reader_iter ==
    /\ LET r == iterLoop(it, <<>>) IN
        /\ it' = r.it
        /\ hist' = Log(Op("iter", None, it, r.it, r.frames, r.raised))
    /\ UNCHANGED <<source, failAt, kwsize, meta, info, estimate>>
    /\ UNCHANGED <<writerVars, decodeVars, procVars, io>>

Reader_read ==
    /\ \E n \in {None} \cup 0..(MaxLen + 1) :
        LET r == read(n, it) IN
        /\ it' = r.it
        /\ hist' = Log(Op("read", n, it, r.it, r.frames, r.raised))
    /\ UNCHANGED <<source, failAt, kwsize, meta, info, estimate>>
    /\ UNCHANGED <<writerVars, decodeVars, procVars, io>>

Reader_skip ==
    /\ \E n \in 0..(MaxLen + 1) :
        LET j == skipLoop(n, it) IN
        /\ it' = j
        /\ hist' = Log(Op("skip", n, it, j, <<>>, "none"))
    /\ UNCHANGED <<source, failAt, kwsize, meta, info, estimate>>
    /\ UNCHANGED <<writerVars, decodeVars, procVars, io>>

\* Reader.__init__: the engine is opened on the source.
Reader_init ==
    /\ io.reader.st = "none"
    /\ it' = [pos |-> 0, done |-> FALSE]
    /\ info' = IF kwsize = NoSize THEN meta.size ELSE kwsize
    /\ io' = [io EXCEPT !.reader = opened]
    /\ UNCHANGED <<source, failAt, kwsize, meta, hist, estimate>>
    /\ UNCHANGED <<writerVars, decodeVars, procVars>>

\* _FF.__enter__ of the Reader
Reader_enter ==
    /\ io.reader.st = "open" /\ io.reader.scope = "none"
    /\ io' = [io EXCEPT !.reader = enter(@)]
    /\ UNCHANGED <<readerVars, writerVars, decodeVars, procVars>>

\* _FF.__exit__ of the Reader: the with block ends, normally or not.
Reader_exit ==
    /\ io.reader.scope = "in"
    /\ \E exc \in {"none", "error"} : io' = [io EXCEPT !.reader = exit(@, exc)]
    /\ UNCHANGED <<readerVars, writerVars, decodeVars, procVars>>

\* _FF.close of the Reader
Reader_close ==
    /\ io.reader.st = "open" /\ io.reader.scope = "none"
    /\ io' = [io EXCEPT !.reader = exit(@, "none")]
    /\ UNCHANGED <<readerVars, writerVars, decodeVars, procVars>>

\* round(x) of the float num/den >= 0: to the nearest integer, a tie to the
\* even one.
round(num, den) ==
    LET f == num \div den
        r == num % den
    IN  IF 2 * r < den THEN f
        ELSE IF 2 * r > den THEN f + 1
        ELSE IF f % 2 = 0 THEN f ELSE f + 1

\* Reader.estimateFrames that returns the declared count whatever it is.
estimateFrames_declared(m) ==
    IF m.nframes.k = "absent" THEN NoValue ELSE m.nframes

\* Reader.estimateFrames: meta["nframes"], or round(fps * duration) when that
\* is float("inf"); None when anything in it raises (a missing key, a value
\* that cannot be multiplied, round() of inf or nan).
estimateFrames(m) ==
    IF m.nframes.k = "absent" THEN NoValue
    ELSE IF m.nframes.k # "inf" THEN m.nframes
    ELSE IF m.fps.k # "num" \/ m.duration.k # "num" THEN NoValue
    ELSE Num(round(m.fps.num * m.duration.num, m.fps.den * m.duration.den), 1)

Reader_estimateFrames ==
    /\ estimate' = estimateFrames(meta)
    /\ UNCHANGED <<source, failAt, it, kwsize, meta, info, hist>>
    /\ UNCHANGED <<writerVars, decodeVars, procVars, io>>

---------------------------------------------------------------------------
(* Writer *)

\* write: a Surface is used as it is, anything else through its .image or
\* Image(srf).image; the frame and its size stay the same.
surface(x) == [n |-> x.n, size |-> x.size, resized |-> FALSE]

\* Image(srf).config(size=size).image
config(srf, size) == [srf EXCEPT !.size = size, !.resized = TRUE]

\* Writer.write without the resize.
conform_never(srf, target) == srf

\* Writer.write, lines 130-131: resize when the size is not the target size.
conform(srf, target) == IF srf.size # target THEN config(srf, target) ELSE srf

\* Writer.write, line 129: the first frame's size becomes the target size.
adopt(cur, size) == IF cur = NoSize THEN size ELSE cur

\* Writer.write: the new target size and the frame given to append_data.
write(cur, x) ==
    LET srf == surface(x)
        t == adopt(cur, srf.size)
    IN  [size |-> t, out |-> conform(srf, t)]

\* Writer.writePixelData that conforms the frame as write does.
writePixelData_conform(cur, x) == write(cur, x)

\* Writer.writePixelData: pil(pix) goes to append_data, _size is not read.
writePixelData(cur, x) == [size |-> cur, out |-> surface(x)]

\* What the encode engine received: the frame, the size it was given at, and
\* the method that appended it.
Emitted(by, x, f) ==
    [by |-> by, n |-> f.n, insize |-> x.size, size |-> f.size, resized |-> f.resized]

Frames == [n : {Len(sink) + 1}, size : Sizes, kind : {"Surface", "Image", "other"}]

Writer_write ==
    /\ Len(sink) < MaxWrites
    /\ \E x \in Frames :
        LET w == write(wsize, x) IN
        /\ wsize' = w.size
        /\ sink' = Append(sink, Emitted("write", x, w.out))
    /\ UNCHANGED ctorSize
    /\ UNCHANGED <<readerVars, decodeVars, procVars, io>>

Writer_writePixelData ==
    /\ Len(sink) < MaxWrites
    /\ \E x \in Frames :
        LET w == writePixelData(wsize, x) IN
        /\ wsize' = w.size
        /\ sink' = Append(sink, Emitted("writePixelData", x, w.out))
    /\ UNCHANGED ctorSize
    /\ UNCHANGED <<readerVars, decodeVars, procVars, io>>

---------------------------------------------------------------------------
(* Reader.decode *)

\* Line 101 with the rate halved whatever the interval.
adjustFps_half(fps, interval) ==
    IF fps.k = "num" /\ fps.num # 0 /\ interval > 1
        THEN Num(fps.num, fps.den * 2) ELSE fps

\* Line 101: if meta.get("fps") and interval > 1: meta["fps"] /= interval
adjustFps(fps, interval) ==
    IF fps.k = "num" /\ fps.num # 0 /\ interval > 1
        THEN Num(fps.num, fps.den * interval) ELSE fps

\* Line 105: for j in range(interval-1): next(ffr._iter)
RECURSIVE skipGroup(_, _)
skipGroup(j, i) ==
    IF j > 0
        THEN LET r == pull(i) IN
             IF r.kind = "frame" THEN skipGroup(j - 1, r.it)
                                 ELSE [kind |-> r.kind, it |-> r.it]
        ELSE [kind |-> "frame", it |-> i]

\* Line 107: an archive entry named str(i) holding bytes(PixelData).
Entry(i, data) == [kind |-> "frame", name |-> i, data |-> data, size |-> info']

\* Line 107: a frame equal to the one before it gets no entry.
store(z, i, data, prev) == IF data # prev THEN Append(z, Entry(i, data)) ELSE z

\* The frame loop leaving when frames + 1 frames are done.
atCount_late(i, frames) == i = frames + 1

\* Line 110: if i == frames: break
atCount(i, frames) == i = frames

\* Lines 103-111: the frame loop.  `taken` lists the source positions of the
\* frames it transferred; `ended` is what made it stop.
RECURSIVE frameLoop(_, _, _, _, _)
frameLoop(i, prev, j, z, taken) ==
    LET g == skipGroup(args.interval - 1, j) IN
    IF g.kind # "frame"
        THEN [i |-> i, it |-> g.it, zip |-> z, taken |-> taken, ended |-> g.kind]
        ELSE LET r == pull(g.it) IN
             IF r.kind # "frame"
                 THEN [i |-> i, it |-> r.it, zip |-> z, taken |-> taken, ended |-> r.kind]
                 ELSE LET z2 == store(z, i, r.data, prev)
                          t2 == Append(taken, g.it.pos)
                      IN  IF atCount(i + 1, args.frames)
                              THEN [i |-> i + 1, it |-> r.it, zip |-> z2,
                                    taken |-> t2, ended |-> "count"]
                              ELSE frameLoop(i + 1, r.data, r.it, z2, t2)

\* Line 112 counting the entries written.
setNframes_entries(m, i, z) == [m EXCEPT !.nframes = Num(Len(z), 1)]

\* Line 112: meta["nframes"] = i
setNframes(m, i, z) == [m EXCEPT !.nframes = Num(i, 1)]

\* Line 113 left out when the frame loop ended on a failure.
closeArchive_onSuccess(z, m, ended) ==
    IF ended = "EngineFailure" THEN z
    ELSE Append(z, [kind |-> "meta", name |-> "meta.json", meta |-> m])

\* Line 113: zf.writestr("meta.json", dumps(meta)), however the loop ended.
closeArchive(z, m, ended) ==
    Append(z, [kind |-> "meta", name |-> "meta.json", meta |-> m])

\* Reader.decode: open the archive and a Reader, adjust the rate, read
\* `start` frames, run the frame loop, write meta.json, close both.
\* An exception of read(start) is outside the try and leaves decode.
Reader_decode ==
    /\ dret.status = "none"
    /\ kwsize' = IF args.size # NoSize THEN args.size ELSE NoSize
    /\ info' = IF kwsize' = NoSize THEN meta.size ELSE kwsize'
    /\ LET m1 == [meta EXCEPT !.fps = adjustFps(meta.fps, args.interval)]
           s == IF Truthy(args.start) THEN read(args.start, it)
                ELSE [it |-> it, frames |-> <<>>, raised |-> "none"]
       IN  IF s.raised # "none"
               THEN /\ it' = s.it
                    /\ meta' = m1
                    /\ zip' = zip
                    /\ io' = [io EXCEPT !.reader = exit(enter(opened), s.raised)]
                    /\ dret' = [status |-> "raised", raised |-> s.raised,
                                ended |-> "none", taken |-> <<>>]
               ELSE LET l == frameLoop(0, None, s.it, <<>>, <<>>)
                        m2 == setNframes(m1, l.i, l.zip)
                    IN  /\ it' = l.it
                        /\ meta' = m2
                        /\ zip' = closeArchive(l.zip, m2, l.ended)
                        /\ io' = [io EXCEPT !.reader = exit(enter(opened), "none")]
                        /\ dret' = [status |-> "returned", raised |-> "none",
                                    ended |-> l.ended, taken |-> l.taken]
    /\ UNCHANGED <<source, failAt, hist, estimate, args>>
    /\ UNCHANGED <<writerVars, procVars>>

---------------------------------------------------------------------------
(* Writer.concat, Writer.concat_zip, Writer.encode *)

\* A Writer inside a procedure: its _size, what its engine received, and the
\* exception an append_data raised.
WriterOf(size, snk) == [size |-> size, sink |-> snk, raised |-> "none"]

\* append_data putting the frame before the ones already written.
append_front(w, e) ==
    IF w.raised # "none" THEN w
    ELSE IF Len(w.sink) = sinkFail THEN [w EXCEPT !.raised = "EngineFailure"]
    ELSE [w EXCEPT !.sink = <<e>> \o @]

\* self._io.append_data: the engine takes the frame, or raises.
append(w, e) ==
    IF w.raised # "none" THEN w
    ELSE IF Len(w.sink) = sinkFail THEN [w EXCEPT !.raised = "EngineFailure"]
    ELSE [w EXCEPT !.sink = Append(@, e)]

\* self.write(x): _size is set before append_data is called.
writeTo(w, x) ==
    LET r == write(w.size, x) IN
    append([w EXCEPT !.size = r.size], Emitted("write", x, r.out))

\* self.writePixelData(x)
writeRaw(w, x) ==
    LET r == writePixelData(w.size, x) IN
    append(w, Emitted("writePixelData", x, r.out))

\* Writer._srf_rgb: the frame as a 24-bit surface, same pixels and size.
srf_rgb(n, pix) == [n |-> n, size |-> pix.size, kind |-> "Surface"]

\* Writer.concat's loop never counting down.
RECURSIVE concatLoop_uncounted(_, _, _)
concatLoop_uncounted(frames, i, w) ==
    IF frames = None \/ frames # 0
        THEN LET r == pull(i) IN
             IF r.kind = "StopIteration" THEN [it |-> r.it, w |-> w, raised |-> "none"]
             ELSE IF r.kind # "frame" THEN [it |-> r.it, w |-> w, raised |-> r.kind]
             ELSE LET w2 == writeTo(w, srf_rgb(i.pos, PixelData(i.pos, r.data))) IN
                  IF w2.raised # "none"
                      THEN [it |-> r.it, w |-> w2, raised |-> w2.raised]
                      ELSE concatLoop_uncounted(frames, r.it, w2)
        ELSE [it |-> i, w |-> w, raised |-> "none"]

\* Writer.concat, lines 159-163: while frames is None or frames, write the
\* next frame of the reader and count down; StopIteration ends the loop, any
\* other exception leaves it.
RECURSIVE concatLoop(_, _, _)
concatLoop(frames, i, w) ==
    IF frames = None \/ frames # 0
        THEN LET r == pull(i) IN
             IF r.kind = "StopIteration" THEN [it |-> r.it, w |-> w, raised |-> "none"]
             ELSE IF r.kind # "frame" THEN [it |-> r.it, w |-> w, raised |-> r.kind]
             ELSE LET w2 == writeTo(w, srf_rgb(i.pos, PixelData(i.pos, r.data))) IN
                  IF w2.raised # "none"
                      THEN [it |-> r.it, w |-> w2, raised |-> w2.raised]
                      ELSE concatLoop(IF Truthy(frames) THEN frames - 1 ELSE frames,
                                      r.it, w2)
        ELSE [it |-> i, w |-> w, raised |-> "none"]

\* a[lo:hi] of a sequence of n frames, as the indices 1..n it selects.
slice(n, lo, hi) ==
    [k \in 1..Max(Min(hi, n) - Min(lo, n), 0) |-> Min(lo, n) + k]

\* Line 152: src[start:start+frames] if frames else src[start:]
clip_zip(n, start, frames) ==
    IF Truthy(frames) THEN slice(n, start, start + frames) ELSE slice(n, start, n)

\* Line 174: self[start:start + frames] if frames else self[start:] if start else self
clip_encode(n, start, frames) ==
    IF Truthy(frames) THEN slice(n, start, start + frames)
    ELSE IF Truthy(start) THEN slice(n, start, n)
    ELSE [k \in 1..n |-> k]

\* Line 153: for f in clip: self.write(self._srf_rgb(f))
RECURSIVE zipLoop(_, _, _)
zipLoop(idx, k, w) ==
    IF k > Len(idx) \/ w.raised # "none" THEN w
    ELSE zipLoop(idx, k + 1, writeTo(w, srf_rgb(idx[k], archive[idx[k]])))

\* Lines 176-178: a frame whose size is not the size asked for is resized
\* and written with write; any other goes to writePixelData as it is.
encodeFrame(w, n, size) ==
    IF size # NoSize /\ archive[n].size # size
        THEN writeTo(w, [n |-> n, size |-> size, kind |-> "Surface"])
        ELSE writeRaw(w, srf_rgb(n, archive[n]))

\* Line 175: for pix in seq
RECURSIVE encodeLoop(_, _, _, _)
encodeLoop(idx, k, w, size) ==
    IF k > Len(idx) \/ w.raised # "none" THEN w
    ELSE encodeLoop(idx, k + 1, encodeFrame(w, idx[k], size), size)

\* The record of a procedure call: its arguments, the length of the sink
\* when it began, and how it ended.
Call(op, start, frames, size, raised) ==
    [op |-> op, start |-> start, frames |-> frames, size |-> size, base |-> Len(sink),
     status |-> IF raised = "none" THEN "returned" ELSE "raised", raised |-> raised]

Starts == 0..2
Counts == {None} \cup 0..MaxLen

\* Writer.__init__
Writer_init ==
    /\ io.writer.st = "none"
    /\ \E size \in {NoSize, <<2, 1>>} :
        /\ ctorSize' = size
        /\ wsize' = size
    /\ io' = [io EXCEPT !.writer = opened]
    /\ UNCHANGED <<sink, readerVars, decodeVars, procVars>>

\* _FF.__enter__ of the Writer
Writer_enter ==
    /\ io.writer.st = "open" /\ io.writer.scope = "none"
    /\ io' = [io EXCEPT !.writer = enter(@)]
    /\ UNCHANGED <<writerVars, readerVars, decodeVars, procVars>>

\* _FF.__exit__ of the Writer: the with block ends, normally or not.
Writer_exit ==
    /\ io.writer.scope = "in"
    /\ \E exc \in {"none", "error"} : io' = [io EXCEPT !.writer = exit(@, exc)]
    /\ UNCHANGED <<writerVars, readerVars, decodeVars, procVars>>

\* _FF.close of the Writer
Writer_close ==
    /\ io.writer.st = "open" /\ io.writer.scope = "none"
    /\ io' = [io EXCEPT !.writer = exit(@, "none")]
    /\ UNCHANGED <<writerVars, readerVars, decodeVars, procVars>>

\* Writer.write and Writer.writePixelData on the open Writer.
Writer_frame ==
    /\ io.writer.st = "open"
    /\ Len(sink) < MaxWrites
    /\ \E x \in Frames : \E raw \in BOOLEAN :
        LET w == IF raw THEN writeRaw(WriterOf(wsize, sink), x)
                        ELSE writeTo(WriterOf(wsize, sink), x)
        IN  /\ wsize' = w.size
            /\ sink' = w.sink
            /\ call' = Call(IF raw THEN "writePixelData" ELSE "write",
                            0, None, NoSize, w.raised)
    /\ UNCHANGED <<ctorSize, archive, sinkFail, readerVars, decodeVars, io>>

\* Writer.concat: with Reader(src).skip(start) as src, the loop.
Writer_concat ==
    /\ io.writer.st = "open"
    /\ Len(sink) < MaxWrites
    /\ \E start \in Starts : \E frames \in Counts :
        LET j == skipLoop(start, [pos |-> 0, done |-> FALSE])
            r == concatLoop(frames, j, WriterOf(wsize, sink))
        IN  /\ it' = r.it
            /\ wsize' = r.w.size
            /\ sink' = r.w.sink
            /\ io' = [io EXCEPT !.reader = exit(enter(opened), r.raised)]
            /\ call' = Call("concat", start, frames, NoSize, r.raised)
    /\ UNCHANGED <<source, failAt, kwsize, meta, info, hist, estimate>>
    /\ UNCHANGED <<ctorSize, archive, sinkFail, decodeVars>>

\* Writer.concat_zip: with VidZip(src) as src, the clip written frame by frame.
Writer_concat_zip ==
    /\ io.writer.st = "open"
    /\ Len(sink) < MaxWrites
    /\ \E start \in Starts : \E frames \in Counts :
        LET w == zipLoop(clip_zip(Len(archive), start, frames), 1, WriterOf(wsize, sink))
        IN  /\ wsize' = w.size
            /\ sink' = w.sink
            /\ call' = Call("concat_zip", start, frames, NoSize, w.raised)
    /\ UNCHANGED <<ctorSize, archive, sinkFail, readerVars, decodeVars, io>>

\* Writer.encode: with VidZip(zfile), with Writer(mfile, fps, **kwargs) as
\* ffw, which is given no size; the frames of the clip written one by one.
Writer_encode ==
    /\ io.writer.st = "none"
    /\ \E start \in Starts : \E frames \in Counts : \E size \in {NoSize, <<2, 1>>} :
        LET w == encodeLoop(clip_encode(Len(archive), start, frames), 1,
                            WriterOf(NoSize, <<>>), size)
        IN  /\ ctorSize' = NoSize
            /\ wsize' = w.size
            /\ sink' = w.sink
            /\ io' = [io EXCEPT !.writer = exit(enter(opened), w.raised)]
            /\ call' = Call("encode", start, frames, size, w.raised)
    /\ UNCHANGED <<archive, sinkFail, readerVars, decodeVars>>

---------------------------------------------------------------------------
(* Initial states *)

Sources == UNION {[1..l -> Data] : l \in 0..MaxLen}

NoWriter == wsize = NoSize /\ ctorSize = NoSize /\ sink = <<>>
NoCall == [status |-> "none", raised |-> "none", ended |-> "none", taken |-> <<>>]
NoDecode == args = <<>> /\ zip = <<>> /\ dret = NoCall
NoProcCall == [op |-> "none", start |-> 0, frames |-> None, size |-> NoSize,
               base |-> 0, status |-> "none", raised |-> "none"]
NoProc == archive = <<>> /\ call = NoProcCall /\ sinkFail = None
Handles(r, w) == [reader |-> r, writer |-> w]

\* Metadata the engine reports for a source of l frames at 30 fps: the frame
\* count is declared, or unbounded with a duration to estimate it from.
SourceMetas(l) ==
    {[size |-> <<1, 1>>, fps |-> Num(30, 1), nframes |-> nf, duration |-> Num(l, 30)] :
        nf \in {Num(l, 1), Inf}}

\* Reader.__init__
InitReader ==
    /\ source \in Sources
    /\ failAt \in {None} \cup 0..Len(source)
    /\ it = [pos |-> 0, done |-> FALSE]
    /\ kwsize \in {NoSize, <<2, 2>>}
    /\ meta \in SourceMetas(Len(source))
    /\ info = IF kwsize = NoSize THEN meta.size ELSE kwsize
    /\ hist = <<>>
    /\ estimate = Unset

Init == InitReader /\ NoWriter /\ NoDecode /\ NoProc /\ io = Handles(opened, NoHandle)

Next == Reader_next \/ Reader_iter \/ Reader_read \/ Reader_skip

Spec == Init /\ [][Next]_vars

\* Reader.estimateFrames over the metadata an engine can report.
Values == {Absent, Bad, Inf, Num(0, 1), Num(30, 1), Num(25, 1), Num(5, 2)}
Durations == {Absent, Bad, Inf, Num(0, 1), Num(1, 1), Num(1, 2), Num(3, 1)}
Metas ==
    [size : {<<1, 1>>}, fps : Values, duration : Durations,
     nframes : {Absent, Inf} \cup {Num(l, 1) : l \in 0..MaxLen}]

InitEstimate ==
    /\ source = <<>>
    /\ failAt = None
    /\ it = [pos |-> 0, done |-> FALSE]
    /\ kwsize = NoSize
    /\ meta \in Metas
    /\ info = meta.size
    /\ hist = <<>>
    /\ estimate = Unset
    /\ NoWriter /\ NoDecode /\ NoProc
    /\ io = Handles(opened, NoHandle)

SpecEstimate == InitEstimate /\ [][Reader_estimateFrames]_vars

\* Writer.__init__
InitWriter ==
    /\ ctorSize \in {NoSize} \cup Sizes
    /\ wsize = ctorSize
    /\ sink = <<>>
    /\ source = <<>>
    /\ failAt = None
    /\ it = [pos |-> 0, done |-> FALSE]
    /\ kwsize = NoSize
    /\ meta = [size |-> <<1, 1>>, fps |-> Absent, duration |-> Absent, nframes |-> Absent]
    /\ info = meta.size
    /\ hist = <<>>
    /\ estimate = Unset
    /\ NoDecode /\ NoProc
    /\ io = Handles(NoHandle, opened)

NextWriter == Writer_write \/ Writer_writePixelData

SpecWriter == InitWriter /\ [][NextWriter]_vars

\* Reader.decode over the sources, metadata and arguments it can be given.
DecodeArgs ==
    [size : {NoSize, <<2, 2>>}, start : 0..2,
     frames : {None} \cup 0..MaxLen, interval : 1..MaxInterval]

InitDecode ==
    /\ source \in Sources
    /\ failAt \in {None} \cup 0..Len(source)
    /\ it = [pos |-> 0, done |-> FALSE]
    /\ kwsize = NoSize
    /\ meta \in {[size |-> <<1, 1>>, fps |-> f, nframes |-> Inf,
                  duration |-> Num(Len(source), 30)] :
                    f \in {Absent, Num(0, 1), Num(30, 1)}}
    /\ info = meta.size
    /\ hist = <<>>
    /\ estimate = Unset
    /\ args \in DecodeArgs
    /\ zip = <<>>
    /\ dret = NoCall
    /\ NoWriter /\ NoProc
    /\ io = Handles(NoHandle, NoHandle)

SpecDecode == InitDecode /\ [][Reader_decode]_vars

\* The Writer procedures over a media source and an archive.
PlainSources == {[j \in 1..l |-> 1] : l \in 0..MaxLen}
SizedFrames == [data : {1}, size : {<<1, 1>>, <<2, 1>>}, mode : {"RGB"}]
SizedArchives == UNION {[1..l -> SizedFrames] : l \in 0..MaxLen}
PlainArchives == {[j \in 1..l |-> [data |-> 1, size |-> <<1, 1>>, mode |-> "RGB"]] :
                    l \in 0..MaxLen}
\* A media file to read and nothing opened yet.
MediaFile ==
    /\ source \in PlainSources
    /\ failAt \in {None} \cup 0..Len(source)
    /\ it = [pos |-> 0, done |-> FALSE]
    /\ kwsize = NoSize
    /\ meta = [size |-> <<1, 1>>, fps |-> Num(30, 1), nframes |-> Inf,
               duration |-> Num(Len(source), 30)]
    /\ info = meta.size
    /\ hist = <<>>
    /\ estimate = Unset

\* One call of concat or concat_zip on a new Writer, or one call of encode.
InitProc ==
    /\ MediaFile
    /\ NoDecode
    /\ archive \in SizedArchives
    /\ sinkFail \in {None, 1}
    /\ call = NoProcCall
    /\ sink = <<>>
    /\ \E w \in {NoHandle, opened} :
        /\ io = Handles(NoHandle, w)
        /\ ctorSize \in IF w = opened THEN {NoSize, <<2, 1>>} ELSE {NoSize}
    /\ wsize = ctorSize

Proc_concat == call.status = "none" /\ Writer_concat
Proc_concat_zip == call.status = "none" /\ Writer_concat_zip
Proc_encode == call.status = "none" /\ Writer_encode

NextProc == Proc_concat \/ Proc_concat_zip \/ Proc_encode

SpecProc == InitProc /\ [][NextProc]_vars

\* Any sequence of write, writePixelData, concat and concat_zip calls on one
\* Writer.
InitOrder ==
    /\ MediaFile
    /\ failAt = None
    /\ NoDecode
    /\ archive \in {z \in PlainArchives : Len(z) = MaxLen}
    /\ sinkFail = None
    /\ call = NoProcCall
    /\ sink = <<>>
    /\ io = Handles(NoHandle, opened)
    /\ ctorSize = NoSize
    /\ wsize = ctorSize

\* The calls that leave at most MaxWrites frames in the sink.
Order_frame == Writer_frame
Order_concat == Writer_concat /\ Len(sink') <= MaxWrites
Order_concat_zip == Writer_concat_zip /\ Len(sink') <= MaxWrites

NextOrder == Order_frame \/ Order_concat \/ Order_concat_zip

SpecOrder == InitOrder /\ [][NextOrder]_vars

\* Readers and Writers opened, held by with statements and closed, by the
\* caller and by decode, concat, concat_zip and encode.
InitScope ==
    /\ MediaFile
    /\ failAt \in {None, 1}
    /\ NoDecode
    /\ archive \in {z \in PlainArchives : Len(z) = MaxLen}
    /\ sinkFail \in {None, 1}
    /\ call = NoProcCall
    /\ NoWriter
    /\ io = Handles(NoHandle, NoHandle)

Scope_decode == args # <<>> /\ Reader_decode
Scope_concat == args = <<>> /\ io.reader.st = "none" /\ Proc_concat
Scope_concat_zip == args = <<>> /\ Proc_concat_zip
Scope_encode == args = <<>> /\ Proc_encode
Scope_reader ==
    args = <<>> /\ call.op # "concat"
    /\ (Reader_init \/ Reader_enter \/ Reader_exit \/ Reader_close)
Scope_writer ==
    args = <<>> /\ call.op # "encode"
    /\ (Writer_init \/ Writer_enter \/ Writer_exit \/ Writer_close)

NextScope ==
    \/ Scope_decode \/ Scope_concat \/ Scope_concat_zip \/ Scope_encode
    \/ Scope_reader \/ Scope_writer

SpecScope == (InitScope \/ InitDecode) /\ [][NextScope]_vars

\* An archive encoded to a media file by a lossless engine, and the media
\* file decoded again.
RoundFrames == [data : Data, size : {<<1, 1>>, <<2, 1>>}, mode : {"RGB"}]
RoundArchives == UNION {[1..l -> RoundFrames] : l \in 0..MaxLen}

\* The bytes of a frame's array as the engine stores and returns them: the
\* pixel contents of an array of the given width and height.
RawBytes(d, size) == d + 10 * size[1] + 100 * size[2]

InitRound ==
    /\ source = <<>> /\ failAt = None
    /\ it = [pos |-> 0, done |-> FALSE]
    /\ kwsize = NoSize
    /\ meta = [size |-> <<1, 1>>, fps |-> Num(30, 1), nframes |-> Inf,
               duration |-> Num(0, 30)]
    /\ info = meta.size
    /\ hist = <<>> /\ estimate = Unset
    /\ NoDecode /\ NoWriter
    /\ archive \in RoundArchives
    /\ sinkFail = None
    /\ call = NoProcCall
    /\ io = Handles(NoHandle, NoHandle)

\* Writer.encode(zfile, mfile) with its default arguments.
Round_encode ==
    /\ call.status = "none"
    /\ Writer_encode
    /\ call'.start = 0 /\ call'.frames = None /\ call'.size = NoSize

\* The media file just written becomes the source of a Reader: the engine
\* returns the arrays it was given, and reports the size of the first one.
\* decode is then called with interval 1, start 0, no count and no size.
Round_open ==
    /\ call.op = "encode" /\ call.status = "returned" /\ args = <<>>
    /\ source' = [j \in 1..Len(sink) |->
                      RawBytes(archive[sink[j].n].data, sink[j].size)]
    /\ meta' = [meta EXCEPT !.size = IF sink = <<>> THEN @ ELSE sink[1].size,
                            !.duration = Num(Len(sink), 30)]
    /\ info' = meta'.size
    /\ it' = [pos |-> 0, done |-> FALSE]
    /\ args' = [size |-> NoSize, start |-> 0, frames |-> None, interval |-> 1]
    /\ UNCHANGED <<failAt, kwsize, hist, estimate, zip, dret>>
    /\ UNCHANGED <<writerVars, procVars, io>>

Round_decode == args # <<>> /\ Reader_decode

NextRound == Round_encode \/ Round_open \/ Round_decode

SpecRound == InitRound /\ [][NextRound]_vars

---------------------------------------------------------------------------
(* Properties of Reader: skip, read, metadata *)

\* C1: on a source that yields L frames, skip(n) followed by iterating the
\* reader to exhaustion yields the frames at positions n, ..., L-1 (from p+n
\* when p frames were consumed before), that is max(L - n, 0) frames, and
\* neither call raises, also when n > L.
C1_SkipThenIterate ==
    (Len(hist) = 2 /\ hist[1].op = "skip" /\ hist[2].op = "iter" /\ failAt = None) =>
        LET n == hist[1].n
            p == hist[1].from
            L == Len(source)
            fr == hist[2].frames
        IN  /\ hist[1].raised = "none"
            /\ hist[2].raised = "none"
            /\ Len(fr) = Max(L - p - n, 0)
            /\ \A j \in 1..Len(fr) :
                /\ fr[j].pos = p + n + j - 1
                /\ fr[j].data = source[p + n + j]

C1_Witness ==
    /\ Len(hist) = 2 /\ failAt = None /\ Len(source) = 3
    /\ hist[1].op = "skip" /\ hist[1].from = 0 /\ hist[1].n = 2
    /\ hist[2].op = "iter" /\ Len(hist[2].frames) = 1
    /\ hist[2].frames[1].pos = 2

\* C9: read(n) on a reader with R frames left returns the next min(n, R)
\* frames in decode order (all R when n is None) and consumes exactly those.
C9_ReadBounded ==
    \A k \in 1..Len(hist) :
        (hist[k].op = "read" /\ failAt = None) =>
            LET h == hist[k]
                R == Len(source) - h.from
                c == IF h.n = None THEN R ELSE Min(h.n, R)
            IN  /\ h.raised = "none"
                /\ Len(h.frames) = c
                /\ h.to = h.from + c
                /\ \A j \in 1..c :
                    /\ h.frames[j].pos = h.from + j - 1
                    /\ h.frames[j].data = source[h.from + j]

C9_Witness ==
    /\ Len(hist) = 2 /\ failAt = None /\ Len(source) = 3
    /\ hist[1].op = "skip" /\ hist[1].from = 0 /\ hist[1].n = 1
    /\ hist[2].op = "read" /\ hist[2].n = 1
    /\ Len(hist[2].frames) = 1 /\ hist[2].frames[1].pos = 1
    /\ it.pos = 2

\* C10: next, iteration, read and skip leave the reader's metadata, the
\* value of estimateFrames and the declared frame size as they were when the
\* reader was opened, and every frame produced carries that size.
C10_MetadataFixed ==
    /\ [](/\ info = (IF kwsize = NoSize THEN meta.size ELSE kwsize)
          /\ \A k \in 1..Len(hist) : \A j \in 1..Len(hist[k].frames) :
                hist[k].frames[j].size = info)
    /\ [][/\ meta' = meta
          /\ info' = info
          /\ estimateFrames(meta') = estimateFrames(meta)]_vars

C10_Witness ==
    /\ Len(hist) = 2 /\ kwsize # NoSize
    /\ hist[1].op = "skip" /\ hist[1].to > hist[1].from
    /\ hist[2].op = "read" /\ Len(hist[2].frames) > 0
    /\ estimateFrames(meta) = Num(Len(source), 1)

\* C7: estimateFrames returns the declared frame count when it is finite,
\* the integer nearest to rate x duration (a tie going to the even one) when
\* the count is infinite, and None when the count, or the rate or duration
\* it then needs, is not available; it never raises.
C7_EstimateFrames ==
    estimate # Unset =>
        /\ estimate.k # "raised"
        /\ meta.nframes.k = "num" => estimate = meta.nframes
        /\ (meta.nframes = Inf /\ meta.fps.k = "num" /\ meta.duration.k = "num") =>
            LET P == meta.fps.num * meta.duration.num
                Q == meta.fps.den * meta.duration.den
                d == 2 * (P - estimate.num * Q)
            IN  /\ estimate.k = "num" /\ estimate.den = 1
                /\ d <= Q /\ -d <= Q
                /\ (d = Q \/ -d = Q) => estimate.num % 2 = 0
        /\ (\/ meta.nframes = Absent
            \/ (meta.nframes = Inf /\ (meta.fps = Absent \/ meta.duration = Absent)))
            => estimate = NoValue

C7_Witness ==
    /\ meta.nframes = Inf /\ meta.fps = Num(5, 2) /\ meta.duration = Num(1, 1)
    /\ estimate = Num(2, 1)

---------------------------------------------------------------------------
(* Properties of Writer: write, writePixelData *)

Written(by) == {i \in 1..Len(sink) : sink[i].by = by}
First(S) == CHOOSE i \in S : \A j \in S : i <= j

\* C2: the target size is the size given at construction, or else the size
\* of the first frame passed to write; once set it does not change; every
\* frame write hands to the engine has the target size, resized exactly when
\* its own size differs.
C2_TargetSize ==
    /\ [](/\ wsize = (IF ctorSize # NoSize THEN ctorSize
                      ELSE IF Written("write") = {} THEN NoSize
                      ELSE sink[First(Written("write"))].insize)
          /\ \A i \in Written("write") :
                /\ sink[i].size = wsize
                /\ sink[i].resized = (sink[i].insize # wsize))
    /\ [][wsize # NoSize => wsize' = wsize]_vars

C2_Witness ==
    /\ ctorSize = NoSize /\ Len(sink) = 2
    /\ sink[1].by = "write" /\ sink[2].by = "write"
    /\ sink[1].insize = <<2, 1>> /\ sink[2].insize = <<2, 2>>
    /\ sink[2].size = <<2, 1>> /\ sink[2].resized
    /\ wsize = <<2, 1>>

\* C8: writePixelData appends the frame at its own size, unresized, whatever
\* the target size, and leaves the target size as it was.
C8_RawWrite ==
    /\ [](\A i \in Written("writePixelData") :
            sink[i].size = sink[i].insize /\ ~sink[i].resized)
    /\ [][(Len(sink') = Len(sink) + 1 /\ sink'[Len(sink')].by = "writePixelData")
            => wsize' = wsize]_vars

C8_Witness ==
    /\ Len(sink) = 2 /\ wsize = <<1, 1>>
    /\ sink[1].by = "write"
    /\ sink[2].by = "writePixelData" /\ sink[2].insize = <<2, 2>>
    /\ sink[2].size = <<2, 2>>

---------------------------------------------------------------------------
(* Properties of Reader.decode *)

FrameEntries == SelectSeq(zip, LAMBDA e : e.kind = "frame")
Returned == dret.status = "returned"
Recorded == zip[Len(zip)].meta       \* the metadata written as meta.json

\* The number of frames decode samples from a source that yields L frames,
\* from position 0: a count of 0 is treated as no count.
Sampled(L, k, c) == IF c = None \/ c = 0 THEN L \div k ELSE Min(c, L \div k)

C4_NframesIsEntries ==
    Returned => Recorded.nframes = Num(Len(FrameEntries), 1)

\* C4, amended: the nframes recorded equals the number of frames the loop
\* transferred, however it ended; the entries written are those of them that
\* differ from the frame transferred before, so nframes is the number of
\* entries plus the number of repeated frames left out.
C4_NframesIsTransferred ==
    Returned =>
        LET t == dret.taken
            changed == {j \in 1..Len(t) : j = 1 \/ source[t[j] + 1] # source[t[j - 1] + 1]}
        IN  /\ Recorded.nframes = Num(Len(t), 1)
            /\ Len(FrameEntries) = Cardinality(changed)
            /\ {FrameEntries[j].name : j \in 1..Len(FrameEntries)} = {j - 1 : j \in changed}
            /\ Recorded = meta

C4_Witness ==
    /\ Returned /\ dret.ended = "EngineFailure"
    /\ Len(dret.taken) = 2 /\ Len(FrameEntries) = 1
    /\ Recorded.nframes = Num(2, 1)

\* C5 as claimed: a failure of the decode engine during the frame loop,
\* other than the end of the stream, leaves decode as an exception.
C5_FailurePropagates ==
    (dret.status # "none" /\ dret.ended = "EngineFailure") => dret.status = "raised"

\* C6: the frame rate decode records is the source's frame rate divided by
\* the interval k (unchanged for k = 1); a source without a frame rate gets
\* none recorded.
C6_RateDivided ==
    [][(dret.status = "none" /\ dret'.status = "returned") =>
        LET rec == zip'[Len(zip')].meta.fps
            k == args.interval
        IN  IF meta.fps.k = "num"
                THEN /\ rec.k = "num"
                     /\ rec.num * meta.fps.den * k = meta.fps.num * rec.den
                ELSE rec = meta.fps]_vars

C6_Witness ==
    /\ Returned /\ args.interval = 3
    /\ Recorded.fps = Num(30, 3)

---------------------------------------------------------------------------
(* Properties of the handles *)

HandleNames == {"reader", "writer"}
OpenHandles == {h \in HandleNames : io[h].st = "open"}

\* C11 as claimed: the registry holds exactly the Readers and Writers that
\* were constructed and are not yet closed.
C11_RegistryIsOpenHandles == registry = OpenHandles

\* C12: a handle whose with statement was left, normally or by an error, is
\* closed; and once decode, concat or encode has returned or raised, the
\* Reader or Writer that the procedure opened is closed.
C12_ClosedOnExit ==
    /\ \A h \in HandleNames : io[h].scope = "left" => io[h].st = "closed"
    /\ dret.status # "none" => (io.reader.st = "closed" /\ io.reader.scope = "left")
    /\ (call.op = "concat" /\ call.status # "none")
        => (io.reader.st = "closed" /\ io.reader.scope = "left")
    /\ (call.op = "encode" /\ call.status # "none")
        => (io.writer.st = "closed" /\ io.writer.scope = "left")

C12_Witness ==
    /\ call.op = "concat" /\ call.status = "raised"
    /\ io.reader = [st |-> "closed", scope |-> "left", exc |-> "EngineFailure"]
    /\ io.writer.st = "open"

---------------------------------------------------------------------------
(* Properties of Writer.concat, Writer.concat_zip and Writer.encode *)

\* The frames the last call appended, by the number they carry: the
\* position in the media source (from 0) or the index in the archive (from 1).
Appended == [j \in 1..(Len(sink) - call.base) |-> sink[call.base + j].n]
NoFailure == failAt = None /\ sinkFail = None

\* C13: with no engine failure, concat(src, start, count) on a source of L
\* frames returns normally having written the source frames at positions
\* start, start+1, ... in order, each through write: min(count, max(L-start, 0))
\* of them when a count is given, none when it is 0, and all max(L-start, 0)
\* remaining frames when it is not given.
C13_ConcatFrames ==
    (call.op = "concat" /\ NoFailure) =>
        LET avail == Max(Len(source) - call.start, 0)
            N == IF call.frames = None THEN avail ELSE Min(call.frames, avail)
        IN  /\ call.status = "returned"
            /\ Len(Appended) = N
            /\ \A j \in 1..N :
                /\ Appended[j] = call.start + j - 1
                /\ sink[call.base + j].by = "write"

C13_Witness ==
    /\ call.op = "concat" /\ call.status = "returned" /\ NoFailure
    /\ Len(source) = MaxLen /\ call.start = 1 /\ call.frames = 1
    /\ Appended = <<1>>

\* C14 as claimed: concat_zip and encode write exactly the frames of the
\* slice [start : start+count] whenever a count is set, 0 included, and all
\* frames from start on only when the count is not set.
C14_SliceRule ==
    (call.op \in {"concat_zip", "encode"} /\ call.status = "returned") =>
        Appended = IF call.frames # None
                       THEN slice(Len(archive), call.start, call.start + call.frames)
                       ELSE slice(Len(archive), call.start, Len(archive))

\* C15 as claimed: all frames one encode call appends have the same size, the
\* size asked for or else the size of the first frame written.
C15_EncodeOneSize ==
    call.op = "encode" =>
        \A i \in 1..Len(sink) :
            sink[i].size = IF call.size # NoSize THEN call.size ELSE sink[1].size

---------------------------------------------------------------------------
(* Engine failures in Reader operations *)

\* The frames an operation asks the engine for, when nothing stops it.
Pulls(o) ==
    IF o.op = "next" THEN 1
    ELSE IF o.op = "iter" \/ o.n = None THEN MaxLen + 2
    ELSE o.n

\* C16 as claimed: when the engine fails during next, iteration, read or skip,
\* the failure reaches the caller of that operation; only the end of the
\* stream is absorbed. Stated for the first operation on a Reader whose
\* source fails at a position the operation reaches.
C16_FailureSurfaces ==
    (Len(hist) = 1 /\ failAt # None /\ Pulls(hist[1]) > failAt)
        => hist[1].raised = "EngineFailure"

---------------------------------------------------------------------------
(* Frame order *)

\* The frames a call is given, in the order it is given them: the one frame
\* of write or writePixelData, the source positions from start for concat,
\* the clip of the archive for concat_zip.
Supplied(c) ==
    IF c.op = "concat"
        THEN LET avail == Max(Len(source) - c.start, 0) IN
             [j \in 1..(IF c.frames = None THEN avail ELSE Min(c.frames, avail))
                 |-> c.start + j - 1]
    ELSE IF c.op = "concat_zip" THEN clip_zip(Len(archive), c.start, c.frames)
    ELSE <<c.base + 1>>

\* C17: over any sequence of write, writePixelData, concat and concat_zip
\* calls on one Writer, each call leaves the frames already appended as they
\* are and appends after them exactly the frames it was given, in the order
\* given: none dropped, duplicated or reordered. The frames concat takes
\* from its Reader are the source positions in increasing order.
C17_OrderPreserved ==
    [][/\ Len(sink') >= Len(sink)
       /\ SubSeq(sink', 1, Len(sink)) = sink
       /\ [j \in 1..(Len(sink') - Len(sink)) |-> sink'[Len(sink) + j].n]
              = Supplied(call')]_vars

C17_Witness ==
    /\ call.op = "concat" /\ call.base = 1 /\ call.start = 1
    /\ sink[1].by = "writePixelData"
    /\ Appended = <<1, 2>>

---------------------------------------------------------------------------
(* Reader.decode: sampling positions and the metadata record *)

\* C19 as claimed: decode with start s, interval k and count c on a source of
\* L frames samples the source positions s + (j+1)k - 1, j = 0, 1, ..., in
\* that order, stopping as soon as c frames are sampled or the source runs
\* out, an incomplete last group giving no frame.
C19_SamplePositions ==
    (Returned /\ failAt = None) =>
        LET s == args.start
            k == args.interval
            groups == Max(Len(source) - s, 0) \div k
            N == IF args.frames = None THEN groups ELSE Min(args.frames, groups)
        IN  dret.taken = [j \in 1..N |-> s + j * k - 1]

MetaEntries == {i \in 1..Len(zip) : zip[i].kind = "meta"}

\* C20: once the frame loop of decode has ended, by the count, by the end of
\* the source or by an error inside the loop, the archive holds exactly one
\* meta.json entry, placed after every frame entry, whose nframes is the
\* number of frames the loop sampled; an archive with a frame entry always
\* has its metadata entry, and a decode that raised before the loop wrote
\* nothing.
C20_MetaWrittenOnce ==
    /\ Returned =>
        /\ MetaEntries = {Len(zip)}
        /\ zip[Len(zip)].meta.nframes = Num(Len(dret.taken), 1)
        /\ dret.ended \in {"count", "StopIteration", "EngineFailure"}
    /\ FrameEntries # <<>> => MetaEntries # {}
    /\ dret.status = "raised" => zip = <<>>

C20_Witness ==
    /\ Returned /\ dret.ended = "EngineFailure"
    /\ FrameEntries # <<>> /\ Len(dret.taken) = MaxLen - 1
    /\ MetaEntries = {Len(zip)}

---------------------------------------------------------------------------
(* Round trip: Writer.encode, then Reader.decode *)

\* The frames an archive written by decode describes: nframes frames, the
\* j-th being the entry named j, or for a name left out the entry before it.
EntryFor(j) ==
    LET fe == FrameEntries
        at == CHOOSE i \in 1..Len(fe) :
                 /\ fe[i].name <= j
                 /\ \A h \in 1..Len(fe) : fe[h].name <= j => fe[h].name <= fe[i].name
    IN  fe[at]
Described == [j \in 1..Recorded.nframes.num |-> EntryFor(j - 1)]

\* C18 as claimed: an archive of N frames encoded with Writer.encode and the
\* media decoded with Reader.decode (interval 1, start 0, no count, no size)
\* gives an archive describing N frames, each with the pixel data, at the
\* size, of the original frame in the same place.
C18_RoundTrip ==
    (call.op = "encode" /\ Returned) =>
        /\ Len(Described) = Len(archive)
        /\ \A j \in 1..Len(Described) :
            /\ Described[j].data = RawBytes(archive[j].data, archive[j].size)
            /\ Described[j].size = archive[j].size

====
